---------------------------- MODULE Spec2Model ----------------------------
(***************************************************************************)
(* Model of kksubs/model/subtitle_services.py: the text layout and layer   *)
(* compositing of apply_subtitle_to_image, the fold of                     *)
(* SubtitleService.apply_subtitle_group over a subtitle list and the       *)
(* validate / render / save loop of SubtitleService.add_subtitles.         *)
(*                                                                         *)
(* Text is a sequence of one-character strings.  A pixel is <<c, a>>: one  *)
(* 8-bit colour band and the 8-bit alpha band (PIL treats every colour     *)
(* band alike).  Coordinates are kept in half pixels (x2 = 2*x), because   *)
(* the source computes them with float division by 2.                      *)
(*                                                                         *)
(* The inputs are profiles whose font and image files load and whose wrap  *)
(* width is positive.  A line of text inks the rectangle of its advance    *)
(* and the font's ink height at the truncated line_pos, a stroke widens it *)
(* on every side, and ink covers a pixel fully (no antialiasing), so a     *)
(* layer pixel is partly transparent only through its colour or a blur.    *)
(***************************************************************************)
EXTENDS Integers, Sequences, FiniteSets, TLC

(* ------------------------------ bounds -------------------------------- *)
ImageWidth == 6
ImageHeight == 8
MaxLen == 3
MaxLines == 3
MaxSubs == 3
MaxBox == 2
MaxAnchor == 1

\* Python's None; an optional value is <<>> or <<v>>.
None == <<>>

Some(v) == <<v>>

(* --------------------------- textwrap.wrap ---------------------------- *)
IsSpace(chunk) == \A k \in 1..Len(chunk) : chunk[k] = " "

Last(s) == s[Len(s)]

Front(s) == SubSeq(s, 1, Len(s) - 1)

RECURSIVE Join(_)
Join(chunks) == IF chunks = <<>> THEN <<>> ELSE Head(chunks) \o Join(Tail(chunks))

RECURSIVE SumLen(_)
SumLen(chunks) == IF chunks = <<>> THEN 0 ELSE Len(Head(chunks)) + SumLen(Tail(chunks))

\* TextWrapper._split: maximal runs of whitespace and of non-whitespace
\* (the alphabet of the model holds no hyphen), empty chunks dropped.
RECURSIVE SplitChunks(_)
SplitChunks(text) ==
    IF text = <<>> THEN <<>>
    ELSE LET rest == SplitChunks(Tail(text))
             c == Head(text)
         IN IF rest # <<>> /\ ((Head(rest)[1] = " ") <=> (c = " "))
            THEN <<(<<c>> \o Head(rest))>> \o Tail(rest)
            ELSE <<(<<c>>)>> \o rest

\* The inner "while chunks" loop of _wrap_chunks: move chunks to the current
\* line while they fit.  Returns <<cur_line, chunks left>>.
RECURSIVE FillLine(_, _, _)
FillLine(chunks, cur_line, width) ==
    IF chunks # <<>> /\ SumLen(cur_line) + Len(Head(chunks)) <= width
    THEN FillLine(Tail(chunks), Append(cur_line, Head(chunks)), width)
    ELSE <<cur_line, chunks>>

\* TextWrapper._handle_long_word with break_long_words = True.
HandleLongWord(chunks, cur_line, width) ==
    LET space_left == IF width < 1 THEN 1 ELSE width - SumLen(cur_line)
        chunk == Head(chunks)
    IN <<Append(cur_line, SubSeq(chunk, 1, space_left)),
         <<SubSeq(chunk, space_left + 1, Len(chunk))>> \o Tail(chunks)>>

\* TextWrapper._wrap_chunks with drop_whitespace = True, no indent, no max_lines.
RECURSIVE WrapChunks(_, _, _)
WrapChunks(chunks, lines, width) ==
    IF chunks = <<>> THEN lines
    ELSE LET c0 == IF IsSpace(Head(chunks)) /\ lines # <<>> THEN Tail(chunks) ELSE chunks
             f == FillLine(c0, <<>>, width)
             h == IF f[2] # <<>> /\ Len(Head(f[2])) > width
                  THEN HandleLongWord(f[2], f[1], width)
                  ELSE f
             cur == IF h[1] # <<>> /\ IsSpace(Last(h[1])) THEN Front(h[1]) ELSE h[1]
         IN WrapChunks(h[2], IF cur # <<>> THEN Append(lines, Join(cur)) ELSE lines, width)

\* A wrapper that keeps a line that wraps to nothing as one empty line.
WrapLineKeepEmpty(line, width) ==
    IF WrapChunks(SplitChunks(line), <<>>, width) = <<>>
    THEN << <<>> >>
    ELSE WrapChunks(SplitChunks(line), <<>>, width)

\* textwrap.wrap(line, width=box_width) for width > 0.
WrapLine(line, width) == WrapChunks(SplitChunks(line), <<>>, width)

\* wrapped_text = [_line for line in content for _line in textwrap.wrap(...)]
RECURSIVE WrapContent(_, _)
WrapContent(content, width) ==
    IF content = <<>> THEN <<>>
    ELSE WrapLine(Head(content), width) \o WrapContent(Tail(content), width)

(* ------------------------- PIL image buffers -------------------------- *)
Pixels == (0..(ImageWidth - 1)) \X (0..(ImageHeight - 1))

\* Image.new("RGBA", image.size, (255, 255, 255, 0))
NewLayer == [p \in Pixels |-> <<255, 0>>]

\* PIL's DIV255: ((a + 128) >> 8) + (a + 128)) >> 8
Div255(a) == (((a + 128) \div 256) + (a + 128)) \div 256

\* PIL's BLEND8(mask, in1, in2)
Blend8(mask, in1, in2) == Div255(in1 * (255 - mask) + in2 * mask)

\* image.paste(layer, (0, 0), layer): every band of the canvas, the alpha band
\* included, is blended with the layer's band under the layer's own alpha.
Paste(image, layer) ==
    [p \in Pixels |-> <<Blend8(layer[p][2], image[p][1], layer[p][1]),
                        Blend8(layer[p][2], image[p][2], layer[p][2])>>]

\* add_background(image, background_image)
AddBackground(image, background_image) == Paste(image, background_image)

\* Image.open(background_image_path): the lower half of the canvas is an
\* opaque box, the rest is transparent.
BackgroundImage(path) ==
    [p \in Pixels |-> IF 2 * p[2] >= ImageHeight THEN <<90, 255>> ELSE <<0, 0>>]

\* Image.open(image_path).copy(): one flat opaque picture per image id.
OpenImage(image_id) ==
    [p \in Pixels |-> IF image_id = "i1" THEN <<200, 255>> ELSE <<201, 255>>]

\* int() of a float kept in half units: truncation toward zero.
IntTrunc(v2) == IF v2 >= 0 THEN v2 \div 2 ELSE -((-v2) \div 2)

\* The pixels a draw.text call inks for a line of advance w and ink height g
\* at line_pos, grown by stroke_width on every side and clipped to the canvas.
Ink(line_pos, w, g, stroke_width) ==
    LET x == IntTrunc(line_pos[1])
        y == IntTrunc(line_pos[2])
    IN {p \in Pixels : /\ x - stroke_width <= p[1]
                       /\ p[1] < x + w + stroke_width
                       /\ y - stroke_width <= p[2]
                       /\ p[2] < y + g + stroke_width}

\* ImageDraw.text(line_pos, line, font, fill, stroke_width, stroke_fill): with
\* a stroke width the stroked text is drawn first and the plain text on top;
\* a stroke_fill of None is the fill ink.  Drawing overwrites the layer pixel.
DrawText(layer, line_pos, w, g, fill, stroke_width, stroke_fill) ==
    LET stroke_ink == IF stroke_fill = None THEN fill ELSE stroke_fill[1]
        stroked == IF stroke_width > 0 THEN Ink(line_pos, w, g, stroke_width) ELSE {}
        plain == Ink(line_pos, w, g, 0)
    IN [p \in Pixels |-> IF p \in plain THEN fill
                         ELSE IF p \in stroked THEN stroke_ink
                         ELSE layer[p]]

Clamp(v, hi) == IF v < 0 THEN 0 ELSE IF v > hi THEN hi ELSE v

RECURSIVE SumBand(_, _, _)
SumBand(layer, cells, band) ==
    IF cells = <<>> THEN 0
    ELSE layer[Head(cells)][band] + SumBand(layer, Tail(cells), band)

\* layer.filter(ImageFilter.GaussianBlur(radius)): every band is replaced by
\* a weighted mean of its neighbourhood, the edge pixels repeated; the model
\* takes the unweighted mean over the (2*radius+1)^2 window.
GaussianBlur(layer, radius) ==
    LET side == 2 * radius + 1
        Window(p) == [k \in 1..(side * side) |->
                        <<Clamp(p[1] - radius + ((k - 1) % side), ImageWidth - 1),
                          Clamp(p[2] - radius + ((k - 1) \div side), ImageHeight - 1)>>]
    IN [p \in Pixels |-> <<SumBand(layer, Window(p), 1) \div (side * side),
                           SumBand(layer, Window(p), 2) \div (side * side)>>]

(* --------------------------- font metrics ----------------------------- *)
\* font.getlength(line): the advance of the line.
GetLength(line, font) == Len(line) * font.adv

\* _get_text_dimensions("l", font)[1]: the height basis of the subtitle.
TextHeight(font) == font.height

(* --------------------------- line position ---------------------------- *)
ValidAlignment == {"left", "center", "right"}

ValidPush == {"up", "down"}

\* A slip that exchanges the left and the right formula.
LineX2Swapped(alignment, image_width, text_width, tb_anchor_x) ==
    CASE alignment = "left" -> (image_width - text_width) + 2 * tb_anchor_x - text_width
      [] alignment = "center" -> image_width + 2 * tb_anchor_x - text_width
      [] alignment = "right" -> (image_width + text_width) + 2 * tb_anchor_x - text_width

\* x of line_pos, in half pixels.
LineX2(alignment, image_width, text_width, tb_anchor_x) ==
    CASE alignment = "left" -> (image_width + text_width) + 2 * tb_anchor_x - text_width
      [] alignment = "center" -> image_width + 2 * tb_anchor_x - text_width
      [] alignment = "right" -> (image_width - text_width) + 2 * tb_anchor_x - text_width

\* A slip that counts the lines below line i without line i itself.
LineY2OffByOne(push, image_height, text_height, tb_anchor_y, num_lines, i) ==
    CASE push = "up" ->
            image_height - 2 * tb_anchor_y + 2 * (-(text_height * (num_lines - i - 1)))
      [] push = "down" ->
            image_height - 2 * tb_anchor_y
              + 2 * (num_lines * text_height - text_height * (num_lines - i - 1))

\* y of line_pos, in half pixels; i is the 0-based line index.
LineY2(push, image_height, text_height, tb_anchor_y, num_lines, i) ==
    CASE push = "up" ->
            image_height - 2 * tb_anchor_y + 2 * (-(text_height * (num_lines - i)))
      [] push = "down" ->
            image_height - 2 * tb_anchor_y
              + 2 * (num_lines * text_height - text_height * (num_lines - i))

(* ------------------------------ state --------------------------------- *)
VARIABLES
    pc,               \* control point of the running call
    err,              \* the exception that ended the run, "none" while running
    subtitle,         \* argument of the running apply_subtitle_to_image call
    image,            \* the canvas
    image_in,         \* the canvas as it was passed to the running call
    text_layer, outline_1_layer, outline_2_layer,
    wrapped_text,     \* physical lines of the running call
    i,                \* lines of the running call drawn so far
    positions,        \* line_pos of every line drawn so far, in half pixels
    subtitle_groups,  \* get_subtitle_groups(): <<[text_id, by_image]>> in key order
    text_idx, image_idx, sub_idx,   \* the three loop positions (1-based)
    dirs,             \* output directories that exist
    written,          \* the output files saved, in order: [text_id, image_id, data]
    history           \* per subtitle applied to the open canvas: its topmost ink per pixel

vars == <<pc, err, subtitle, image, image_in, text_layer, outline_1_layer,
          outline_2_layer, wrapped_text, i, positions, subtitle_groups,
          text_idx, image_idx, sub_idx, dirs, written, history>>

apply_vars == <<subtitle, image, image_in, text_layer, outline_1_layer,
                outline_2_layer, wrapped_text, i, positions>>

service_vars == <<subtitle_groups, text_idx, image_idx, sub_idx, dirs, written, history>>

\* get_image_paths()
ImagePaths == <<"i1", "i2">>

(* ---------------------- apply_subtitle_to_image ----------------------- *)
\* Lines 29-74: paste the background, create the three layers, wrap the
\* content and measure it; max() of no widths raises ValueError.
ApplyBegin ==
    /\ pc = "apply"
    /\ image' = IF subtitle.background_image_path # None
                THEN AddBackground(image, BackgroundImage(subtitle.background_image_path[1]))
                ELSE image
    /\ text_layer' = NewLayer
    /\ outline_1_layer' = NewLayer
    /\ outline_2_layer' = NewLayer
    /\ wrapped_text' = WrapContent(subtitle.content, subtitle.box_width)
    /\ i' = 0
    /\ positions' = <<>>
    /\ IF wrapped_text' = <<>>
       THEN pc' = "raised" /\ err' = "max_empty"
       ELSE pc' = "loop" /\ err' = err
    /\ UNCHANGED <<subtitle, image_in, service_vars>>

\* Lines 77-114: one pass of the line loop.
DrawLine ==
    /\ pc = "loop"
    /\ i < Len(wrapped_text)
    /\ LET line == wrapped_text[i + 1]
           text_width == GetLength(line, subtitle.font)
           text_height == TextHeight(subtitle.font)
           num_lines == Len(wrapped_text)
       IN IF subtitle.alignment \notin ValidAlignment
          THEN /\ pc' = "raised" /\ err' = "alignment"
               /\ UNCHANGED <<apply_vars, service_vars>>
          ELSE IF subtitle.push \notin ValidPush
          THEN /\ pc' = "raised" /\ err' = "push"
               /\ UNCHANGED <<apply_vars, service_vars>>
          ELSE LET line_pos == <<LineX2(subtitle.alignment, ImageWidth, text_width,
                                        subtitle.anchor_point[1]),
                                 LineY2(subtitle.push, ImageHeight, text_height,
                                        subtitle.anchor_point[2], num_lines, i)>>
                   g == subtitle.font.ink
                   drawn == IF subtitle.stroke_size # None
                            THEN DrawText(text_layer, line_pos, text_width, g,
                                          subtitle.font_color, subtitle.stroke_size[1],
                                          subtitle.stroke_color)
                            ELSE DrawText(text_layer, line_pos, text_width, g,
                                          subtitle.font_color, 0, None)
               IN /\ outline_2_layer' =
                        IF subtitle.outline_data_2 # None
                        THEN DrawText(outline_2_layer, line_pos, text_width, g,
                                      subtitle.outline_data_2[1].color,
                                      subtitle.outline_data_2[1].radius,
                                      Some(subtitle.outline_data_2[1].color))
                        ELSE outline_2_layer
                  /\ outline_1_layer' =
                        IF subtitle.outline_data_1 # None
                        THEN DrawText(outline_1_layer, line_pos, text_width, g,
                                      subtitle.outline_data_1[1].color,
                                      subtitle.outline_data_1[1].radius,
                                      Some(subtitle.outline_data_1[1].color))
                        ELSE outline_1_layer
                  /\ text_layer' = drawn
                  /\ image' = Paste(image, drawn)
                  /\ positions' = Append(positions, line_pos)
                  /\ i' = i + 1
                  /\ UNCHANGED <<pc, err, subtitle, image_in, wrapped_text, service_vars>>

\* blur_strength is not None and blur_strength
Blurs(outline_data) == outline_data.blur_strength # None /\ outline_data.blur_strength[1] # 0

\* Lines 118-119 and 122-123: the outline layer as it is pasted.
Blurred(layer, outline_data) ==
    IF outline_data # None /\ Blurs(outline_data[1])
    THEN GaussianBlur(layer, outline_data[1].blur_strength[1])
    ELSE layer

\* A slip that pastes outline 1 before outline 2.
PasteLayersSwapped(canvas, o2, o1, text, sub) ==
    LET after_1 == IF sub.outline_data_1 # None THEN Paste(canvas, o1) ELSE canvas
        after_2 == IF sub.outline_data_2 # None THEN Paste(after_1, o2) ELSE after_1
    IN Paste(after_2, text)

\* A slip that leaves out the last paste of the fill layer.
PasteLayersNoFill(canvas, o2, o1, text, sub) ==
    LET after_2 == IF sub.outline_data_2 # None THEN Paste(canvas, o2) ELSE canvas
    IN IF sub.outline_data_1 # None THEN Paste(after_2, o1) ELSE after_2

\* Lines 117-126: outline 2, then outline 1, then the fill layer once more.
PasteLayers(canvas, o2, o1, text, sub) ==
    LET after_2 == IF sub.outline_data_2 # None THEN Paste(canvas, o2) ELSE canvas
        after_1 == IF sub.outline_data_1 # None THEN Paste(after_2, o1) ELSE after_2
    IN Paste(after_1, text)

\* Lines 117-130: blur and paste the outlines, paste the fill layer, return.
ApplyPaste ==
    /\ pc = "loop"
    /\ i = Len(wrapped_text)
    /\ outline_2_layer' = Blurred(outline_2_layer, subtitle.outline_data_2)
    /\ outline_1_layer' = Blurred(outline_1_layer, subtitle.outline_data_1)
    /\ image' = PasteLayers(image, outline_2_layer', outline_1_layer', text_layer, subtitle)
    /\ pc' = "returned"
    /\ UNCHANGED <<err, subtitle, image_in, text_layer, wrapped_text, i, positions,
                   service_vars>>

NextApply == ApplyBegin \/ DrawLine \/ ApplyPaste

(* ------------------- SubtitleService.apply_subtitle_group -------------- *)
TextId == subtitle_groups[text_idx].text_id

ImageId == ImagePaths[image_idx]

Group == subtitle_groups[text_idx].by_image[ImageId]

\* What one applied subtitle shows at each pixel by itself: its topmost layer
\* with ink there (fill over outline 1 over outline 2 over its background),
\* <<0, 0>> where it has none.
TopInk ==
    [p \in Pixels |->
        IF text_layer[p][2] > 0 THEN text_layer[p]
        ELSE IF subtitle.outline_data_1 # None /\ outline_1_layer[p][2] > 0
        THEN outline_1_layer[p]
        ELSE IF subtitle.outline_data_2 # None /\ outline_2_layer[p][2] > 0
        THEN outline_2_layer[p]
        ELSE IF subtitle.background_image_path # None
                /\ BackgroundImage(subtitle.background_image_path[1])[p][2] > 0
        THEN BackgroundImage(subtitle.background_image_path[1])[p]
        ELSE <<0, 0>>]

\* A slip that hands every subtitle a fresh copy of the opened image.
CallApplyFresh ==
    /\ pc = "group_loop"
    /\ sub_idx <= Len(Group.subtitle_list)
    /\ subtitle' = Group.subtitle_list[sub_idx]
    /\ image' = OpenImage(Group.image_id)
    /\ image_in' = image'
    /\ pc' = "apply"
    /\ UNCHANGED <<err, text_layer, outline_1_layer, outline_2_layer,
                   wrapped_text, i, positions, service_vars>>

\* Lines 141-142: the next subtitle of the list is applied to the canvas.
CallApply ==
    /\ pc = "group_loop"
    /\ sub_idx <= Len(Group.subtitle_list)
    /\ subtitle' = Group.subtitle_list[sub_idx]
    /\ image_in' = image
    /\ pc' = "apply"
    /\ UNCHANGED <<err, image, text_layer, outline_1_layer, outline_2_layer,
                   wrapped_text, i, positions, service_vars>>

\* Line 142: the call returns and its canvas is bound to image.
ApplyReturn ==
    /\ pc = "returned"
    /\ sub_idx' = sub_idx + 1
    /\ history' = Append(history, TopInk)
    /\ pc' = "group_loop"
    /\ UNCHANGED <<err, apply_vars, subtitle_groups, text_idx, image_idx, dirs, written>>

(* --------------------- SubtitleService.add_subtitles ------------------- *)
\* A slip that validates the groups of the first text id only.
ValidateFirstOnly ==
    /\ pc = "validate"
    /\ IF \E k \in 1..Len(subtitle_groups) :
            /\ k = 1
            /\ \E im \in DOMAIN subtitle_groups[k].by_image :
                  ~subtitle_groups[k].by_image[im].valid
       THEN pc' = "raised" /\ err' = "validation" /\ text_idx' = text_idx
       ELSE pc' = "text_loop" /\ err' = err /\ text_idx' = 1
    /\ UNCHANGED <<apply_vars, subtitle_groups, image_idx, sub_idx, dirs, written, history>>

\* Lines 146-153: every group of every text id is validated first.
Validate ==
    /\ pc = "validate"
    /\ IF \E k \in 1..Len(subtitle_groups) :
            \E im \in DOMAIN subtitle_groups[k].by_image :
                ~subtitle_groups[k].by_image[im].valid
       THEN pc' = "raised" /\ err' = "validation" /\ text_idx' = text_idx
       ELSE pc' = "text_loop" /\ err' = err /\ text_idx' = 1
    /\ UNCHANGED <<apply_vars, subtitle_groups, image_idx, sub_idx, dirs, written, history>>

\* Lines 155-162: the output directory of the text id is created.
MakeOutputDir ==
    /\ pc = "text_loop"
    /\ text_idx <= Len(subtitle_groups)
    /\ dirs' = dirs \cup {TextId}
    /\ image_idx' = 1
    /\ pc' = "image_loop"
    /\ UNCHANGED <<err, apply_vars, subtitle_groups, text_idx, sub_idx, written, history>>

\* Line 175: the loop over text ids is exhausted.
Finish ==
    /\ pc = "text_loop"
    /\ text_idx > Len(subtitle_groups)
    /\ pc' = "done"
    /\ UNCHANGED <<err, apply_vars, service_vars>>

\* Lines 164-167, 171-173: an image without a group is copied to the output.
CopyImage ==
    /\ pc = "image_loop"
    /\ image_idx <= Len(ImagePaths)
    /\ ImageId \notin DOMAIN subtitle_groups[text_idx].by_image
    /\ written' = Append(written, [text_id |-> TextId, image_id |-> ImageId,
                                   data |-> OpenImage(ImageId)])
    /\ image_idx' = image_idx + 1
    /\ UNCHANGED <<pc, err, apply_vars, subtitle_groups, text_idx, sub_idx, dirs, history>>

\* Lines 164-169 and 137-140: the group's image is opened and copied.
OpenGroup ==
    /\ pc = "image_loop"
    /\ image_idx <= Len(ImagePaths)
    /\ ImageId \in DOMAIN subtitle_groups[text_idx].by_image
    /\ image' = OpenImage(Group.image_id)
    /\ sub_idx' = 1
    /\ history' = <<>>
    /\ pc' = "group_loop"
    /\ UNCHANGED <<err, subtitle, image_in, text_layer, outline_1_layer, outline_2_layer,
                   wrapped_text, i, positions, subtitle_groups, text_idx, image_idx,
                   dirs, written>>

\* A slip that saves the canvas in a finally block, error or not.
SaveImageAlways ==
    /\ \/ pc = "group_loop" /\ sub_idx > Len(Group.subtitle_list) /\ pc' = "image_loop"
       \/ pc = "raised" /\ err \in {"max_empty", "alignment", "push"}
            /\ ~(\E k \in 1..Len(written) :
                    written[k].text_id = TextId /\ written[k].image_id = ImageId)
            /\ pc' = pc
    /\ written' = Append(written, [text_id |-> TextId, image_id |-> ImageId,
                                   data |-> image])
    /\ image_idx' = image_idx + 1
    /\ UNCHANGED <<err, apply_vars, subtitle_groups, text_idx, sub_idx, dirs, history>>

\* Lines 143 and 169-173: the group returns its canvas, which is saved.
SaveImage ==
    /\ pc = "group_loop"
    /\ sub_idx > Len(Group.subtitle_list)
    /\ written' = Append(written, [text_id |-> TextId, image_id |-> ImageId,
                                   data |-> image])
    /\ image_idx' = image_idx + 1
    /\ pc' = "image_loop"
    /\ UNCHANGED <<err, apply_vars, subtitle_groups, text_idx, sub_idx, dirs, history>>

\* Line 164: the loop over image paths is exhausted; next text id.
NextText ==
    /\ pc = "image_loop"
    /\ image_idx > Len(ImagePaths)
    /\ text_idx' = text_idx + 1
    /\ pc' = "text_loop"
    /\ UNCHANGED <<err, apply_vars, subtitle_groups, image_idx, sub_idx, dirs, written,
                   history>>

Next ==
    \/ Validate \/ MakeOutputDir \/ Finish \/ CopyImage \/ OpenGroup \/ NextText
    \/ CallApply \/ ApplyBegin \/ DrawLine \/ ApplyPaste \/ ApplyReturn \/ SaveImage

(* ------------------------------ inputs -------------------------------- *)
Chars == {"a", " "}

RECURSIVE Strings(_)
Strings(n) ==
    IF n = 0 THEN {<<>>}
    ELSE Strings(n - 1)
         \cup {Append(s, c) : s \in {t \in Strings(n - 1) : Len(t) = n - 1}, c \in Chars}

RECURSIVE Lists(_, _)
Lists(S, n) ==
    IF n = 0 THEN {<<>>}
    ELSE Lists(S, n - 1)
         \cup {Append(l, e) : l \in {t \in Lists(S, n - 1) : Len(t) = n - 1}, e \in S}

Outline(color, radius, blur_strength) ==
    [color |-> color, radius |-> radius, blur_strength |-> blur_strength]

Font(adv, height, ink) == [adv |-> adv, height |-> height, ink |-> ink]

PlainSubtitle ==
    [content |-> << <<"a", "a">> >>, box_width |-> 2, alignment |-> "center",
     push |-> "up", anchor_point |-> <<0, 0>>, font |-> Font(1, 1, 1),
     font_color |-> <<10, 255>>, stroke_size |-> None, stroke_color |-> None,
     outline_data_1 |-> None, outline_data_2 |-> None, background_image_path |-> None]

\* Content and wrap width vary: every single logical line up to MaxLen
\* characters, and every list of up to MaxLines sample lines.
SampleLines == {<<>>, <<" ">>, <<"a">>, <<"a", "a", " ", "a">>}

WrapInputs ==
    {[PlainSubtitle EXCEPT !.content = c, !.box_width = w, !.background_image_path = b] :
        c \in {<<s>> : s \in Strings(MaxLen)} \cup Lists(SampleLines, MaxLines),
        w \in 1..MaxBox, b \in {None, Some("box.png")}}

\* Alignment, push, anchor and font metrics vary over lines of three widths.
LayoutInputs ==
    {[PlainSubtitle EXCEPT !.content = c, !.box_width = 3, !.alignment = al, !.push = pu,
                           !.anchor_point = <<dx, dy>>, !.font = Font(adv, h, h),
                           !.background_image_path = b] :
        c \in {<< <<"a">> >>, << <<"a", "a">>, <<"a">> >>,
               << <<"a">>, <<"a", "a", "a">>, <<"a", "a">> >>},
        al \in {"left", "center", "right", "justify"},
        pu \in {"up", "down", "sideways"},
        dx \in (-MaxAnchor)..MaxAnchor, dy \in (-MaxAnchor)..MaxAnchor,
        adv \in {1, 2}, h \in {1, 2}, b \in {None, Some("box.png")}}

\* Colours, fill stroke, outlines, blur and background vary.
CompositeInputs ==
    {[PlainSubtitle EXCEPT !.content = c, !.push = pu, !.font = Font(1, 1, g),
                           !.font_color = fc, !.stroke_size = ss[1], !.stroke_color = ss[2],
                           !.outline_data_1 = o1, !.outline_data_2 = o2,
                           !.background_image_path = b] :
        c \in {<< <<"a", "a">> >>, << <<"a", "a", " ", "a">> >>},
        pu \in {"up", "down"}, g \in {1, 2},
        fc \in {<<10, 255>>, <<10, 128>>},
        ss \in {<<None, None>>, <<Some(1), None>>, <<Some(1), Some(<<20, 255>>)>>,
                <<Some(1), Some(<<20, 0>>)>>},
        o1 \in {None, Some(Outline(<<30, 255>>, 2, None)), Some(Outline(<<30, 255>>, 2, Some(1)))},
        o2 \in {None, Some(Outline(<<40, 255>>, 3, Some(0))), Some(Outline(<<40, 128>>, 3, None))},
        b \in {None, Some("box.png")}}

ApplyInputs == WrapInputs \cup LayoutInputs \cup CompositeInputs

\* A direct call apply_subtitle_to_image(image, subtitle).
InitApply ==
    /\ pc = "apply"
    /\ err = "none"
    /\ subtitle \in ApplyInputs
    /\ image = OpenImage("i1")
    /\ image_in = image
    /\ text_layer = NewLayer
    /\ outline_1_layer = NewLayer
    /\ outline_2_layer = NewLayer
    /\ wrapped_text = <<>>
    /\ i = 0
    /\ positions = <<>>
    /\ subtitle_groups = <<>>
    /\ text_idx = 0
    /\ image_idx = 0
    /\ sub_idx = 0
    /\ dirs = {}
    /\ written = <<>>
    /\ history = <<>>

SpecApply == InitApply /\ [][NextApply]_vars

(* --------------------------- service inputs --------------------------- *)
\* Fill "aa" above the middle row, with an opaque outline around it.
SubA == [PlainSubtitle EXCEPT !.outline_data_1 = Some(Outline(<<30, 255>>, 1, None))]

\* Fill below the middle row, with a fused stroke that reaches into SubA's row.
SubB == [PlainSubtitle EXCEPT !.push = "down", !.font_color = <<50, 255>>,
                              !.stroke_size = Some(1), !.stroke_color = Some(<<55, 255>>)]

\* Fill shifted one column right, over a background box.
SubC == [PlainSubtitle EXCEPT !.anchor_point = <<1, 0>>, !.font_color = <<60, 255>>,
                              !.background_image_path = Some("box.png")]

\* Half-transparent fill.
SubSemi == [PlainSubtitle EXCEPT !.font_color = <<70, 128>>]

SubJustify == [PlainSubtitle EXCEPT !.alignment = "justify",
                                    !.background_image_path = Some("box.png")]

SubBlank == [PlainSubtitle EXCEPT !.content = << <<>> >>]

SubtitleGroup(image_id, subtitle_list, valid) ==
    [image_id |-> image_id, subtitle_list |-> subtitle_list, valid |-> valid]

\* One text id, one group on image i1 with any list of up to MaxSubs subtitles.
ListInputs ==
    {<<[text_id |-> "t1", by_image |-> ("i1" :> SubtitleGroup("i1", l, TRUE))]>> :
        l \in Lists({SubA, SubB, SubC, SubSemi}, MaxSubs)}

SampleLists == {<<SubA, SubB>>, <<SubA, SubJustify>>, <<SubBlank>>}

\* The groups of one text id: each image has no group or one of the sample lists.
ByImage ==
    UNION {[ims -> SampleLists] : ims \in SUBSET {"i1", "i2"}}

Validated(by_image, bad) ==
    [im \in DOMAIN by_image |-> SubtitleGroup(im, by_image[im], im \notin bad)]

\* Up to two text ids; at most one group fails validation.
BatchInputs ==
    {<<>>}
    \cup {<<[text_id |-> "t1", by_image |-> Validated(b1, bad)]>> :
            b1 \in ByImage, bad \in {{}, {"i1"}}}
    \cup {<<[text_id |-> "t1", by_image |-> Validated(b1, {})],
            [text_id |-> "t2", by_image |-> Validated(b2, bad)]>> :
            b1 \in ByImage, b2 \in ByImage, bad \in {{}, {"i2"}}}

\* SubtitleService.add_subtitles() is called on an empty output directory.
Init ==
    /\ pc = "validate"
    /\ err = "none"
    /\ subtitle_groups \in ListInputs \cup BatchInputs
    /\ subtitle = PlainSubtitle
    /\ image = OpenImage("i1")
    /\ image_in = image
    /\ text_layer = NewLayer
    /\ outline_1_layer = NewLayer
    /\ outline_2_layer = NewLayer
    /\ wrapped_text = <<>>
    /\ i = 0
    /\ positions = <<>>
    /\ text_idx = 0
    /\ image_idx = 0
    /\ sub_idx = 0
    /\ dirs = {}
    /\ written = <<>>
    /\ history = <<>>

Spec == Init /\ [][Next]_vars

(* ------------------- properties: line positions ---------------------- *)
Drawn == 1..Len(positions)

LineWidth(k) == GetLength(wrapped_text[k], subtitle.font)

Anchor2 == <<ImageWidth + 2 * subtitle.anchor_point[1],
             ImageHeight - 2 * subtitle.anchor_point[2]>>

\* C6: with n physical lines, height basis H, anchor dy and canvas height Ht,
\* line i (0-based) is drawn at y = Ht/2 - dy - H*(n - i) for push up and at
\* y = Ht/2 - dy + H*i for push down; consecutive lines are H apart, the last
\* line of an upward stack ends at the anchor and the first line of a downward
\* stack starts at it.  (All y are doubled.)
C6_LineY ==
    LET n == Len(wrapped_text)
        H == subtitle.font.height
        dy == subtitle.anchor_point[2]
        y2(k) == positions[k][2]
    IN /\ \A k \in Drawn :
            /\ subtitle.push = "up" => y2(k) = ImageHeight - 2 * dy - 2 * H * (n - (k - 1))
            /\ subtitle.push = "down" => y2(k) = ImageHeight - 2 * dy + 2 * H * (k - 1)
       /\ \A k \in Drawn : k + 1 \in Drawn => y2(k + 1) - y2(k) = 2 * H
       /\ (Len(positions) = n /\ n > 0 /\ subtitle.push = "up")
             => y2(n) + 2 * H = Anchor2[2]
       /\ (Len(positions) > 0 /\ subtitle.push = "down") => y2(1) = Anchor2[2]

C6_Witness ==
    /\ pc = "returned"
    /\ Len(positions) = 3
    /\ Len(subtitle.content) = 1
    /\ subtitle.push = "up"

C6_WitnessDown ==
    /\ pc = "returned"
    /\ Len(positions) = 3
    /\ subtitle.push = "down"
    /\ subtitle.anchor_point[2] # 0
    /\ subtitle.font.height = 2

\* C7: a line of width w on a canvas of width W with anchor offset dx has
\* x = (W + w)/2 + dx - w/2 for left, W/2 + dx - w/2 for center and
\* (W - w)/2 + dx - w/2 for right: the left edge of left-anchored lines, the
\* right edge of right-anchored lines and the middle of centered lines all sit
\* at W/2 + dx whatever w is.  (All x are doubled.)
C7_LineX ==
    LET W == ImageWidth
        dx == subtitle.anchor_point[1]
        x2(k) == positions[k][1]
    IN \A k \in Drawn :
        LET w == Len(wrapped_text[k]) * subtitle.font.adv
        IN /\ subtitle.alignment = "left"
                => x2(k) = (W + w) + 2 * dx - w /\ x2(k) = W + 2 * dx
           /\ subtitle.alignment = "center"
                => x2(k) = W + 2 * dx - w /\ x2(k) + w = W + 2 * dx
           /\ subtitle.alignment = "right"
                => x2(k) = (W - w) + 2 * dx - w /\ x2(k) + 2 * w = W + 2 * dx

C7_Witness ==
    /\ pc = "returned"
    /\ Len(positions) = 3
    /\ subtitle.alignment = "right"
    /\ subtitle.anchor_point[1] # 0
    /\ LineWidth(1) # LineWidth(2)
    /\ LineWidth(2) # LineWidth(3)

(* ---------------------- properties: wrapping -------------------------- *)
Blank(content) == \A k \in 1..Len(content) : IsSpace(content[k])

\* The canvas right after the background step of the running call.
AfterBackground ==
    IF subtitle.background_image_path # None
    THEN Paste(image_in, BackgroundImage(subtitle.background_image_path[1]))
    ELSE image_in

\* C5: every empty logical line produces one empty physical line, so there
\* are at least as many physical lines as logical lines.
C5_EmptyLineKept ==
    (pc \in {"loop", "returned"}) =>
        /\ Len(wrapped_text) >= Len(subtitle.content)
        /\ \A k \in 1..Len(subtitle.content) :
              subtitle.content[k] = <<>> => \E j \in 1..Len(wrapped_text) : wrapped_text[j] = <<>>

\* C9: when the content is an empty list or holds only empty or
\* whitespace-only lines, the call raises at max() of the empty width list:
\* the background is already pasted, no layer has been drawn on and nothing
\* but the background has been pasted.
C9_BlankContentRaises ==
    (pc # "apply" /\ Blank(subtitle.content)) =>
        /\ pc = "raised"
        /\ err = "max_empty"
        /\ wrapped_text = <<>>
        /\ image = AfterBackground
        /\ text_layer = NewLayer
        /\ outline_1_layer = NewLayer
        /\ outline_2_layer = NewLayer
        /\ positions = <<>>

C9_Witness ==
    /\ pc = "raised"
    /\ err = "max_empty"
    /\ Len(subtitle.content) = 2
    /\ subtitle.content[1] = <<>>
    /\ subtitle.content[2] = <<" ">>
    /\ subtitle.background_image_path # None
    /\ image # image_in

(* ------------------ properties: invalid alignment --------------------- *)
\* C3: when the alignment error is raised the canvas is still the canvas that
\* was passed in.
C3_CanvasUntouchedOnAlignmentError ==
    (pc = "raised" /\ err = "alignment") => image = image_in

(* -------------------- properties: compositing ------------------------- *)
\* The pixels the drawn lines ink when drawn with the given stroke width.
InkOf(stroke_width) ==
    UNION {Ink(positions[k], LineWidth(k), subtitle.font.ink, stroke_width) : k \in Drawn}

FillStroke == IF subtitle.stroke_size # None THEN subtitle.stroke_size[1] ELSE 0

FillStrokeInk ==
    IF subtitle.stroke_color # None THEN subtitle.stroke_color[1] ELSE subtitle.font_color

FillInk == InkOf(FillStroke)

Outline1Ink == InkOf(subtitle.outline_data_1[1].radius)

Outline2Ink == InkOf(subtitle.outline_data_2[1].radius)

\* Both outlines and the fill are configured and every ink is opaque.
OpaqueLayers ==
    /\ subtitle.outline_data_1 # None
    /\ subtitle.outline_data_2 # None
    /\ ~Blurs(subtitle.outline_data_1[1])
    /\ ~Blurs(subtitle.outline_data_2[1])
    /\ subtitle.outline_data_1[1].color[2] = 255
    /\ subtitle.outline_data_2[1].color[2] = 255
    /\ subtitle.font_color[2] = 255
    /\ FillStrokeInk[2] = 255

\* What the fill pass left at an inked pixel: the last line drawn there put
\* the fill colour on its glyph ink and the stroke colour on its fused stroke.
FillLayerAt(p) ==
    LET covering == {k \in Drawn :
                        p \in Ink(positions[k], LineWidth(k), subtitle.font.ink, FillStroke)}
        last == CHOOSE k \in covering : \A j \in covering : j <= k
    IN IF p \in Ink(positions[last], LineWidth(last), subtitle.font.ink, 0)
       THEN subtitle.font_color
       ELSE FillStrokeInk

BeneathFill(p) ==
    /\ p \in Outline1Ink \ FillInk => image[p] = subtitle.outline_data_1[1].color
    /\ p \in Outline2Ink \ (Outline1Ink \cup FillInk)
          => image[p] = subtitle.outline_data_2[1].color
    /\ p \notin (FillInk \cup Outline1Ink \cup Outline2Ink) => image[p] = AfterBackground[p]

\* C1 as stated: every pixel with fill ink shows the fill colour, every pixel
\* with outline-1 ink but no fill ink shows outline 1's colour, every pixel
\* with outline-2 ink only shows outline 2's colour, the rest shows the
\* canvas with its background.
C1_FillColourOnTop ==
    (pc = "returned" /\ OpaqueLayers) =>
        \A p \in Pixels :
            /\ p \in FillInk => image[p] = subtitle.font_color
            /\ BeneathFill(p)

\* C1 amended: every pixel with fill ink shows what the fill pass drew there
\* last (the fill colour on glyph ink, the fill stroke's colour on the fused
\* stroke); outline 1 shows where there is no fill ink, outline 2 where there
\* is neither, the canvas with its background where no layer has ink.
C1_FillLayerOnTop ==
    (pc = "returned" /\ OpaqueLayers) =>
        \A p \in Pixels :
            /\ p \in FillInk => image[p] = FillLayerAt(p)
            /\ BeneathFill(p)

C1_Witness ==
    /\ pc = "returned"
    /\ OpaqueLayers
    /\ Len(positions) = 2
    /\ subtitle.background_image_path # None
    /\ subtitle.stroke_size # None
    /\ FillStrokeInk # subtitle.font_color
    /\ \E p \in FillInk : image[p] = subtitle.font_color
    /\ \E p \in FillInk : image[p] = FillStrokeInk
    /\ \E p \in Outline1Ink \ FillInk : TRUE
    /\ \E p \in Outline2Ink \ (Outline1Ink \cup FillInk) : TRUE
    /\ \E p \in Pixels \ Outline2Ink : image[p] # image_in[p]

\* One paste per layer after all lines are drawn.
SinglePass ==
    LET after_2 == IF subtitle.outline_data_2 # None
                   THEN Paste(AfterBackground, outline_2_layer) ELSE AfterBackground
        after_1 == IF subtitle.outline_data_1 # None
                   THEN Paste(after_2, outline_1_layer) ELSE after_2
    IN Paste(after_1, text_layer)

\* C8 as stated: for any layer alpha the returned canvas equals the canvas of
\* one paste per layer.
C8_SamePixelsAnyAlpha == (pc = "returned") => image = SinglePass

\* C8 amended: when every pixel the fill pass inks is fully opaque (an opaque
\* fill colour and fill stroke colour), the returned canvas equals the canvas
\* of one paste per layer, for any number of lines, overlapping lines and any
\* outline alpha.
C8_SamePixelsOpaqueFill ==
    (pc = "returned" /\ subtitle.font_color[2] = 255 /\ FillStrokeInk[2] = 255)
        => image = SinglePass

C8_Witness ==
    /\ pc = "returned"
    /\ subtitle.font_color[2] = 255
    /\ FillStrokeInk[2] = 255
    /\ FillStrokeInk # subtitle.font_color
    /\ Len(positions) = 2
    /\ subtitle.font.ink > subtitle.font.height
    /\ subtitle.outline_data_1 # None
    /\ Blurs(subtitle.outline_data_1[1])
    /\ subtitle.outline_data_2 # None
    /\ subtitle.outline_data_2[1].color[2] = 128
    /\ image = SinglePass
    /\ \E p \in Pixels : outline_1_layer[p][2] \notin {0, 255}

(* ------------------- properties: subtitle groups ---------------------- *)
\* apply_subtitle_group is about to return its canvas.
GroupDone == pc = "group_loop" /\ sub_idx > Len(Group.subtitle_list)

Inked(k, p) == history[k][p][2] > 0

Opaque(k, p) == history[k][p][2] = 255

\* C2 as stated: for any two subtitles of the list, wherever both have ink,
\* or the later one a background pixel, the final canvas shows the later
\* subtitle's pixel.  (Read in its favour: only pixels where every subtitle
\* that has ink has opaque ink.)
C2_LaterOfAnyTwoWins ==
    GroupDone =>
        \A j \in 1..Len(history), k \in 1..Len(history), p \in Pixels :
            (/\ j < k
             /\ Opaque(j, p)
             /\ Opaque(k, p)
             /\ \A m \in 1..Len(history) : Inked(m, p) => Opaque(m, p))
                => image[p] = history[k][p]

\* C2 amended: the subtitles are applied in list order on one canvas, so at
\* every pixel the final canvas shows the pixel of the last subtitle of the
\* list that has ink or background there, when that pixel is opaque; where no
\* subtitle has ink the opened image shows.
C2_LastInListWins ==
    GroupDone =>
        /\ Len(history) = Len(Group.subtitle_list)
        /\ \A p \in Pixels :
            LET covering == {k \in 1..Len(history) : Inked(k, p)}
            IN IF covering = {}
               THEN image[p] = OpenImage(Group.image_id)[p]
               ELSE LET last == CHOOSE k \in covering : \A j \in covering : j <= k
                    IN Opaque(last, p) => image[p] = history[last][p]

C2_Witness ==
    /\ GroupDone
    /\ Len(history) = 3
    /\ \E p \in Pixels :
          /\ Opaque(1, p) /\ Opaque(2, p) /\ Opaque(3, p)
          /\ history[1][p] # history[2][p]
          /\ history[2][p] # history[3][p]
          /\ image[p] = history[3][p]
    /\ \E p \in Pixels : Opaque(1, p) /\ ~Inked(2, p) /\ ~Inked(3, p)
                           /\ image[p] = history[1][p]

(* ---------------------- properties: add_subtitles --------------------- *)
ApplyErrors == {"max_empty", "alignment", "push"}

SavedFor(log, text_id, image_id) ==
    \E k \in 1..Len(log) : log[k].text_id = text_id /\ log[k].image_id = image_id

\* C4: when applying a subtitle of a group raises, the group is abandoned:
\* nothing is saved for its image, the files saved before stay as they are,
\* and nothing runs after the error.
C4_NoOutputOnError ==
    [][/\ pc # "raised"
       /\ (pc' = "raised" /\ err' \in ApplyErrors)
             => /\ written' = written
                /\ ~SavedFor(written', TextId, ImageId)]_vars

C4_Witness ==
    /\ pc = "raised"
    /\ err = "alignment"
    /\ sub_idx = 2
    /\ image # OpenImage(Group.image_id)
    /\ Len(written) = 3
    /\ ~SavedFor(written, TextId, ImageId)

AllValid ==
    \A k \in 1..Len(subtitle_groups) :
        \A im \in DOMAIN subtitle_groups[k].by_image : subtitle_groups[k].by_image[im].valid

\* C10: every group of every text id is validated before any output
\* directory is created or any image is written: when a group fails
\* validation the run ends with no output at all.
C10_ValidateBeforeOutput ==
    /\ (dirs # {} \/ written # <<>>) => AllValid
    /\ (~AllValid /\ pc # "validate")
          => (pc = "raised" /\ err = "validation" /\ dirs = {} /\ written = <<>>)

C10_Witness ==
    /\ pc = "raised"
    /\ err = "validation"
    /\ Len(subtitle_groups) = 2
    /\ \A im \in DOMAIN subtitle_groups[1].by_image : subtitle_groups[1].by_image[im].valid
    /\ dirs = {}
    /\ written = <<>>

=============================================================================
